---- MODULE Spec2Model ----
(***************************************************************************)
(* The URL registry of the browser URL shortener (class URLService), the   *)
(* expiry bounds of the form validation, and the operations the pages call *)
(* on the registry: shortenUrl, getUrlByShortCode, recordClick,            *)
(* getAllUrls, deleteUrl, and the periodic cleanupExpiredUrls.             *)
(*                                                                         *)
(* Time is the value of Date.now() in milliseconds.  The ids built from    *)
(* Date.now() and a random suffix are modelled as fresh numbers.           *)
(* A thrown Error is the returned value [kind |-> "error", ...].           *)
(*                                                                         *)
(* Spec is the registry with localStorage working.  SpecStorage adds       *)
(* localStorage.setItem starting to fail, SpecLookup adds the calls of     *)
(* getUrlByShortCode, SpecCaller adds a caller that writes to what         *)
(* getAllUrls returned, and SpecLive is the registry under a timer that    *)
(* keeps firing.  SpecLogger drives the Logger alone; the registry         *)
(* specifications do not record the events the registry logs, only         *)
(* whether Logger.persistLog threw.  SpecShortCode and SpecUrl apply       *)
(* validateShortCode and validateUrl to strings of characters.             *)
(***************************************************************************)
EXTENDS Integers, Sequences, FiniteSets, TLC

\* ------------------------------------------------------------ bounds
MaxCreates == 2    \* records created over a run
MaxDeletes == 1    \* records deleted over a run
MaxTicks == 2      \* clock advances over a run
MaxClicks == 2     \* click events recorded over a run
MaxSteps == 5      \* calls, timer callbacks and clock advances over a run
MaxLogCalls == 3   \* calls of the logger over a run of the Logger alone
MaxShortChars == 3 \* length up to which every short code is tried
MaxUrlTokens == 4  \* pieces a URL string is put together from

\* ------------------------------------------------- program constants
CleanupIntervalMs == 60000
MaxConcurrentUrls == 5
MinExpiryMinutes == 1
MaxExpiryMinutes == 43200
MaxStoredLogs == 1000
MinShortCodeLength == 3
MaxShortCodeLength == 20

\* The clock advances in steps of one cleanup interval.
TickMs == CleanupIntervalMs

\* ------------------------------------------------------------ inputs
NoCode == ""       \* customShortCode undefined or empty: generate one
WindowOrigin == "http://localhost"
MaskedIp == "xxx.xxx.xxx.xxx"
ClickLocation == "Hyderabad/Secunderabad"

\* What generateShortCode can return: 6 characters of [a-zA-Z0-9].
GenCodes == {"aB3xYz", "Qw9ZrT"}
CustomCodes == {"abc", "ABC", "my-link", "x_9"}
Codes == CustomCodes \cup GenCodes

\* The submissions of the form: <<originalUrl, customShortCode, expiryMinutes>>.
Requests ==
  { <<"https://x.com", "abc", 1>>,
    <<"https://y.com", "abc", 2>>,
    <<"https://y.com", "ABC", 1>>,
    <<"https://y.com", "x_9", 1>>,
    <<"https://example.com/a", NoCode, 1>>,
    <<"https://x.com", "x_9", 0>> }

UserAgents == {"Mozilla/5.0"}
Referrers == {"https://ref.example"}

VARIABLES
  urls,           \* URLService.urls: the records, in Map insertion order
  shortCodeToId,  \* URLService.shortCodeToId: shortCode -> id
  storage,        \* localStorage slot 'urlShortener_urls': <<>> when never
                  \* written (getItem returns null), else <<the array>>
  now,            \* Date.now()
  nextSweep,      \* when the setInterval callback is next due
  nextId,         \* source of fresh record ids
  created,        \* records created since construction
  nextClickId,    \* source of fresh click ids
  deleted,        \* records deleted since construction
  steps,          \* calls, callbacks and clock advances since construction
  last,           \* the last call: its name, its result, and whether it
                  \* called saveToStorage
  failing,        \* the localStorage keys whose setItem throws
  lookup,         \* the last getUrlByShortCode call made since the maps
                  \* last changed: <<>> or <<[shortCode, ret]>>
  logs,           \* Logger.logs
  storedLogs,     \* localStorage slot 'urlShortener_logs', parsed
  allLogs,        \* every event ever written to that slot, in order
  input,          \* the string handed to a validation function
  result          \* <<>> or <<what the validation function returned>>

vars == <<urls, shortCodeToId, storage, now, nextSweep, nextId, created, nextClickId, deleted, steps, last, failing, lookup, logs, storedLogs, allLogs, input, result>>

\* What a call of the registry leaves alone.
others == <<failing, logs, storedLogs, allLogs, input, result>>

\* ------------------------------------------------------- helpers
\* Map.get(id) on urls: <<record>> or <<>> (undefined).
urlsGet(us, id) == SelectSeq(us, LAMBDA u : u.id = id)

\* Map.delete(id) on urls.
urlsDelete(us, id) == SelectSeq(us, LAMBDA u : u.id # id)

\* Map.set / Map.delete on shortCodeToId.
codeSet(m, code, id) == [c \in DOMAIN m \cup {code} |-> IF c = code THEN id ELSE m[c]]
codeDelete(m, code) == [c \in DOMAIN m \ {code} |-> m[c]]

\* What a call gives back; val is always a record, so that any two results
\* can be compared.
\* A returned object.
Returned(v) == [kind |-> "value", val |-> v]

\* A returned boolean.
Answered(b) == [kind |-> "value", val |-> [answer |-> b]]

\* A returned record or null: <<record>> or <<>>.
Found(found) == [kind |-> "value", val |-> [found |-> found]]

\* A thrown Error with its message.
Thrown(msg) == [kind |-> "error", val |-> [message |-> msg]]

\* Nothing: a constructor, a timer callback, a void method.
NoResult == [kind |-> "none", val |-> [undefined |-> TRUE]]

\* ------------------------------------------------- localStorage
UrlsKey == "urlShortener_urls"
LogsKey == "urlShortener_logs"
StorageKeys == {UrlsKey, LogsKey}

\* localStorage.setItem throws a DOMException when the quota is used up.
QuotaExceeded == Thrown("QuotaExceededError")

\* localStorage.setItem(key, new) on a slot holding old: the slot afterwards.
setItem(key, old, new) == IF key \in failing THEN old ELSE new

\* The result of a call that has run logger.info, warn or error on its way:
\* Logger.persistLog calls setItem on the logs slot outside any try, so the
\* exception of a failing setItem leaves the logger and every try/catch
\* whose handler logs again.
afterLog(ret) == IF LogsKey \in failing THEN QuotaExceeded ELSE ret

\* ---------------------------------------------------- validation
validateExpiryMinutes(minutes) ==
  LET e1 == IF minutes < MinExpiryMinutes
            THEN <<"Expiry time must be at least 1 minute">> ELSE <<>>
      e2 == IF minutes > MaxExpiryMinutes
            THEN <<"Expiry time cannot exceed 30 days">> ELSE <<>>
      errors == e1 \o e2
  IN [isValid |-> Len(errors) = 0, errors |-> errors]

\* ---------------------------------------------------- URLService
\* JSON.stringify(Array.from(urls.values())) written to the slot, and read
\* back by loadFromStorage: a Date is written as its ISO string, which has
\* millisecond resolution, and parsed back by new Date(string).
toISOString(t) == <<t \div 1000, t % 1000>>
parseDate(iso) == iso[1] * 1000 + iso[2]

serializeClick(c) == [c EXCEPT !.timestamp = toISOString(c.timestamp)]
serializeUrl(u) ==
  [u EXCEPT !.createdAt = toISOString(u.createdAt),
            !.expiresAt = toISOString(u.expiresAt),
            !.clicks = [i \in DOMAIN u.clicks |-> serializeClick(u.clicks[i])]]

\* saveToStorage: the new content of the slot.
saveToStorage(us) == << [i \in DOMAIN us |-> serializeUrl(us[i])] >>

parseClick(c) == [c EXCEPT !.timestamp = parseDate(c.timestamp)]
parseUrl(u) ==
  [u EXCEPT !.createdAt = parseDate(u.createdAt),
            !.expiresAt = parseDate(u.expiresAt),
            !.clicks = [i \in DOMAIN u.clicks |-> parseClick(u.clicks[i])]]

\* loadFromStorage: the two maps after the forEach over the parsed array.
\* Map.set on a key already present keeps its place and replaces its value.
RECURSIVE loadUrls(_, _)
loadUrls(arr, acc) ==
  IF arr = <<>> THEN acc
  ELSE LET url == parseUrl(Head(arr))
           at == {i \in DOMAIN acc.urls : acc.urls[i].id = url.id}
           us == IF at = {} THEN Append(acc.urls, url)
                 ELSE [i \in DOMAIN acc.urls |-> IF i \in at THEN url ELSE acc.urls[i]]
       IN loadUrls(Tail(arr),
                   [urls |-> us,
                    shortCodeToId |-> codeSet(acc.shortCodeToId, url.shortCode, url.id)])

loadFromStorage(stored) ==
  IF stored = <<>> THEN [urls |-> <<>>, shortCodeToId |-> <<>>]
  ELSE loadUrls(stored[1], [urls |-> <<>>, shortCodeToId |-> <<>>])

\* Mutant: the deadline itself already counts as expired.
isExpired_AtDeadline(url, t) == url.expiresAt <= t

\* Mutant: the deadline is compared with the time of creation.
isExpired_Never(url, t) == url.expiresAt < url.createdAt

\* url.expiresAt < new Date()
isExpired(url, t) == url.expiresAt < t

\* Mutant: records past their deadline are not counted.
activeUrls_NotExpired(us) == SelectSeq(us, LAMBDA u : u.isActive /\ ~isExpired(u, now))

\* Array.from(this.urls.values()).filter(url => url.isActive)
activeUrls(us) == SelectSeq(us, LAMBDA u : u.isActive)

\* Mutant: the limit check is off by one.
limitReached_OffByOne(us) == Len(activeUrls(us)) > MaxConcurrentUrls

\* activeUrls.length >= 5
limitReached(us) == Len(activeUrls(us)) >= MaxConcurrentUrls

\* Mutant: the duplicate check is left out.
codeTaken_Never(m, shortCode) == FALSE

\* Mutant: codes are compared without regard to case.
LowerCased(c) == IF c = "ABC" THEN "abc" ELSE c
codeTaken_IgnoreCase(m, shortCode) ==
  \E c \in DOMAIN m : LowerCased(c) = LowerCased(shortCode)

\* this.shortCodeToId.has(shortCode)
codeTaken(m, shortCode) == shortCode \in DOMAIN m

\* Mutant: the short code is stored where the destination belongs.
newUrl_WrongField(id, originalUrl, shortCode, expiryMinutes, t) ==
  [id |-> id,
   originalUrl |-> shortCode,
   shortCode |-> shortCode,
   shortUrl |-> <<WindowOrigin, "/", shortCode>>,
   createdAt |-> t,
   expiresAt |-> t + expiryMinutes * 60 * 1000,
   isActive |-> TRUE,
   clickCount |-> 0,
   clicks |-> <<>>]

\* lines 100-113 of shortenUrl: the new record.
newUrl(id, originalUrl, shortCode, expiryMinutes, t) ==
  [id |-> id,
   originalUrl |-> originalUrl,
   shortCode |-> shortCode,
   shortUrl |-> <<WindowOrigin, "/", shortCode>>,
   createdAt |-> t,
   expiresAt |-> t + expiryMinutes * 60 * 1000,
   isActive |-> TRUE,
   clickCount |-> 0,
   clicks |-> <<>>]

\* Mutant: the deadline is not looked at.
getUrlByShortCode_NoExpiry(us, m, shortCode, t) ==
  IF shortCode \notin DOMAIN m THEN <<>>
  ELSE LET found == urlsGet(us, m[shortCode])
       IN IF found = <<>> \/ ~found[1].isActive THEN <<>> ELSE found

\* getUrlByShortCode: <<record>>, or <<>> for null.
getUrlByShortCode(us, m, shortCode, t) ==
  IF shortCode \notin DOMAIN m THEN <<>>
  ELSE LET found == urlsGet(us, m[shortCode])
       IN IF found = <<>> \/ ~found[1].isActive \/ isExpired(found[1], t)
          THEN <<>>
          ELSE found

\* getAllUrls: Array.prototype.sort is stable, so records of equal createdAt
\* keep their Map order.
RECURSIVE sortByCreatedAtDesc(_)
sortByCreatedAtDesc(us) ==
  IF us = <<>> THEN <<>>
  ELSE LET init == sortByCreatedAtDesc(SubSeq(us, 1, Len(us) - 1))
           x == us[Len(us)]
           before == SelectSeq(init, LAMBDA u : u.createdAt >= x.createdAt)
           after == SelectSeq(init, LAMBDA u : u.createdAt < x.createdAt)
       IN before \o <<x>> \o after

getAllUrls(us) == sortByCreatedAtDesc(us)

\* What the slot can hold when the page is opened: nothing (a first visit),
\* or what four shortenUrl calls of an earlier visit, all at time 0, saved.
PreviousVisit ==
  saveToStorage(<< newUrl(1, "https://x.com", "abc", 1, 0),
                   newUrl(2, "https://y.com", "ABC", 1, 0),
                   newUrl(3, "https://x.com", "my-link", 2, 0),
                   newUrl(4, "https://example.com/a", "aB3xYz", 1, 0) >>)

StoredSnapshots == {<<>>, PreviousVisit}

Call(op, ret, saved) == [op |-> op, ret |-> ret, saved |-> saved]

\* ---------------------------------------------------------- Init
\* new URLService(): loadFromStorage(), then startExpiryCleanup().
Init ==
  \E stored \in StoredSnapshots :
    /\ storage = stored
    /\ urls = loadFromStorage(stored).urls
    /\ shortCodeToId = loadFromStorage(stored).shortCodeToId
    /\ now = 0
    /\ nextSweep = CleanupIntervalMs
    /\ nextId = Len(loadFromStorage(stored).urls) + 1
    /\ created = 0
    /\ nextClickId = 1
    /\ deleted = 0
    /\ steps = 0
    /\ last = Call("constructor", NoResult, FALSE)
    /\ failing = {}
    /\ lookup = <<>>
    /\ logs = <<>>
    /\ storedLogs = <<>>
    /\ allLogs = <<>>
    /\ input = <<>>
    /\ result = <<>>

\* ------------------------------------------------------- actions
\* Every action is one step of the run.
Step == steps < MaxSteps /\ steps' = steps + 1

\* A remembered getUrlByShortCode call is forgotten when a map changes.
Forget ==
  lookup' = IF urls' = urls /\ shortCodeToId' = shortCodeToId THEN lookup ELSE <<>>

\* The clock moves on.
Tick ==
  /\ Step
  /\ now + TickMs <= MaxTicks * TickMs
  /\ now' = now + TickMs
  /\ last' = Call("tick", NoResult, FALSE)
  /\ UNCHANGED <<urls, shortCodeToId, storage, nextSweep, nextId, created, nextClickId, deleted>>
  /\ UNCHANGED <<lookup, others>>

\* shortenUrl(originalUrl, customShortCode, expiryMinutes), where generated
\* is what generateShortCode() returns when it is called.
shortenUrl(originalUrl, customShortCode, expiryMinutes, generated) ==
  LET id == nextId
      shortCode == IF customShortCode # NoCode THEN customShortCode ELSE generated
  IN IF codeTaken(shortCodeToId, shortCode)
     THEN /\ last' = Call("shortenUrl", Thrown("Short code already exists"), FALSE)
          /\ UNCHANGED <<urls, shortCodeToId, storage, nextId, created>>
     ELSE IF limitReached(urls)
     THEN /\ last' = Call("shortenUrl",
                          afterLog(Thrown("Maximum of 5 concurrent URLs allowed")), FALSE)
          /\ UNCHANGED <<urls, shortCodeToId, storage, nextId, created>>
     ELSE LET shortenedUrl == newUrl(id, originalUrl, shortCode, expiryMinutes, now)
          IN /\ urls' = Append(urls, shortenedUrl)
             /\ shortCodeToId' = codeSet(shortCodeToId, shortCode, id)
             /\ storage' = setItem(UrlsKey, storage, saveToStorage(urls'))
             /\ nextId' = nextId + 1
             /\ created' = created + 1
             /\ last' = Call("shortenUrl", afterLog(Returned(shortenedUrl)), TRUE)

\* URLShortener.handleSubmit: the form is validated, then shortenUrl is called.
Shorten ==
  \E r \in Requests :
    \E g \in (IF r[2] = NoCode THEN GenCodes ELSE {NoCode}) :
      /\ Step
      /\ created < MaxCreates
      /\ validateExpiryMinutes(r[3]).isValid
      /\ shortenUrl(r[1], r[2], r[3], g)
      /\ UNCHANGED <<now, nextSweep, nextClickId, deleted>>
      /\ Forget
      /\ UNCHANGED others

\* Mutant: the sweep removes the expired records instead of flagging them.
cleanupExpiredUrls_Removes ==
  LET kept == SelectSeq(urls, LAMBDA u : ~(isExpired(u, now) /\ u.isActive))
  IN /\ urls' = kept
     /\ storage' = IF Len(kept) < Len(urls) THEN saveToStorage(urls') ELSE storage
     /\ last' = Call("cleanupExpiredUrls", NoResult, Len(kept) < Len(urls))
     /\ UNCHANGED <<shortCodeToId, nextId, created>>

\* Mutant: the sweep forgets to save.
cleanupExpiredUrls_NoSave ==
  LET cleaned == [i \in DOMAIN urls |->
                    IF isExpired(urls[i], now) /\ urls[i].isActive
                    THEN [urls[i] EXCEPT !.isActive = FALSE] ELSE urls[i]]
  IN /\ urls' = cleaned
     /\ storage' = storage
     /\ last' = Call("cleanupExpiredUrls", NoResult, FALSE)
     /\ UNCHANGED <<shortCodeToId, nextId, created>>

\* cleanupExpiredUrls(), run by the setInterval timer when it is due.
cleanupExpiredUrls ==
  LET cleaned == [i \in DOMAIN urls |->
                    IF isExpired(urls[i], now) /\ urls[i].isActive
                    THEN [urls[i] EXCEPT !.isActive = FALSE] ELSE urls[i]]
      cleanedCount == Cardinality({i \in DOMAIN urls :
                                     isExpired(urls[i], now) /\ urls[i].isActive})
  IN /\ urls' = cleaned
     /\ storage' = IF cleanedCount > 0
                   THEN setItem(UrlsKey, storage, saveToStorage(urls')) ELSE storage
     /\ last' = Call("cleanupExpiredUrls",
                     IF cleanedCount > 0 THEN afterLog(NoResult) ELSE NoResult,
                     cleanedCount > 0)
     /\ UNCHANGED <<shortCodeToId, nextId, created>>

Sweep ==
  /\ Step
  /\ now >= nextSweep
  /\ nextSweep' = now + CleanupIntervalMs
  /\ cleanupExpiredUrls
  /\ UNCHANGED <<now, nextClickId, deleted>>
  /\ Forget
  /\ UNCHANGED others

newClick(id, userAgent, referrer, t) ==
  [id |-> id,
   timestamp |-> t,
   userAgent |-> userAgent,
   ipAddress |-> MaskedIp,
   referrer |-> referrer,
   location |-> ClickLocation]

\* Mutant: the click is put in front of the list.
clicked_Prepends(url, clickEvent) ==
  [url EXCEPT !.clicks = <<clickEvent>> \o @, !.clickCount = @ + 1]

\* Mutant: a click uses the link up.
clicked_Deactivates(url, clickEvent) ==
  [url EXCEPT !.clicks = Append(@, clickEvent), !.clickCount = @ + 1,
              !.isActive = FALSE]

\* url.clicks.push(clickEvent); url.clickCount++
clicked(url, clickEvent) ==
  [url EXCEPT !.clicks = Append(@, clickEvent), !.clickCount = @ + 1]

recordClick(shortCode, userAgent, referrer) ==
  LET found == getUrlByShortCode(urls, shortCodeToId, shortCode, now)
  IN IF found = <<>>
     THEN /\ last' = Call("recordClick", Answered(FALSE), FALSE)
          /\ UNCHANGED <<urls, storage, nextClickId>>
     ELSE LET clickEvent == newClick(nextClickId, userAgent, referrer, now)
          IN /\ urls' = [i \in DOMAIN urls |->
                           IF urls[i].id = found[1].id
                           THEN clicked(urls[i], clickEvent) ELSE urls[i]]
             /\ storage' = setItem(UrlsKey, storage, saveToStorage(urls'))
             /\ nextClickId' = nextClickId + 1
             /\ last' = Call("recordClick", afterLog(Answered(TRUE)), TRUE)

RecordClick ==
  \E c \in Codes, ua \in UserAgents, ref \in Referrers :
    /\ Step
    /\ nextClickId <= MaxClicks
    /\ recordClick(c, ua, ref)
    /\ UNCHANGED <<shortCodeToId, now, nextSweep, nextId, created, deleted>>
    /\ Forget
    /\ UNCHANGED others

\* Mutant: the short-code entry is left behind.
deleteUrl_KeepsCode(id) ==
  LET found == urlsGet(urls, id)
  IN IF found = <<>>
     THEN /\ last' = Call("deleteUrl", Answered(FALSE), FALSE)
          /\ UNCHANGED <<urls, shortCodeToId, storage>>
     ELSE /\ urls' = urlsDelete(urls, id)
          /\ storage' = saveToStorage(urls')
          /\ last' = Call("deleteUrl", Answered(TRUE), TRUE)
          /\ UNCHANGED shortCodeToId

deleteUrl(id) ==
  LET found == urlsGet(urls, id)
  IN IF found = <<>>
     THEN /\ last' = Call("deleteUrl", Answered(FALSE), FALSE)
          /\ UNCHANGED <<urls, shortCodeToId, storage>>
     ELSE /\ urls' = urlsDelete(urls, id)
          /\ shortCodeToId' = codeDelete(shortCodeToId, found[1].shortCode)
          /\ storage' = setItem(UrlsKey, storage, saveToStorage(urls'))
          /\ last' = Call("deleteUrl", afterLog(Answered(TRUE)), TRUE)

Delete ==
  \E id \in 1..nextId :
    /\ Step
    /\ deleted < MaxDeletes
    /\ deleted' = deleted + 1
    /\ deleteUrl(id)
    /\ UNCHANGED <<now, nextSweep, nextId, created, nextClickId>>
    /\ Forget
    /\ UNCHANGED others

Next ==
  \/ Tick
  \/ Shorten
  \/ Sweep
  \/ RecordClick
  \/ Delete

Spec == Init /\ [][Next]_vars

\* The elements of the sequence s.
Range(s) == {s[i] : i \in DOMAIN s}

\* ----------------------------------------------------- strings
\* A string is the sequence of its characters.
LowerLetters ==
  <<"a", "b", "c", "d", "e", "f", "g", "h", "i", "j", "k", "l", "m",
    "n", "o", "p", "q", "r", "s", "t", "u", "v", "w", "x", "y", "z">>
UpperLetters ==
  <<"A", "B", "C", "D", "E", "F", "G", "H", "I", "J", "K", "L", "M",
    "N", "O", "P", "Q", "R", "S", "T", "U", "V", "W", "X", "Y", "Z">>
Letters == Range(LowerLetters) \cup Range(UpperLetters)
Digits == {"0", "1", "2", "3", "4", "5", "6", "7", "8", "9"}

\* String.prototype.toLowerCase
toLowerChar(ch) ==
  IF ch \in Range(UpperLetters)
  THEN LowerLetters[CHOOSE i \in DOMAIN UpperLetters : UpperLetters[i] = ch]
  ELSE ch
toLowerCase(s) == [i \in DOMAIN s |-> toLowerChar(s[i])]

\* String.prototype.trim, for strings whose only white space is the blank.
trim(s) ==
  LET solid == {i \in DOMAIN s : s[i] # " "}
      first == CHOOSE i \in solid : \A j \in solid : i <= j
      final == CHOOSE i \in solid : \A j \in solid : i >= j
  IN IF solid = {} THEN <<>> ELSE SubSeq(s, first, final)

\* pat occurs in s.
Contains(s, pat) ==
  \E i \in 1..(Len(s) - Len(pat) + 1) : SubSeq(s, i, i + Len(pat) - 1) = pat

\* The string made of the pieces ts, in order.
RECURSIVE Concat(_)
Concat(ts) == IF ts = <<>> THEN <<>> ELSE Head(ts) \o Concat(Tail(ts))

\* All strings of at most n pieces taken from the set pieces.
Strings(pieces, n) == {Concat(ts) : ts \in UNION {[1..k -> pieces] : k \in 0..n}}

\* ------------------------------------------------------ Logger
LogActions == {"URL_VALIDATION", "MALICIOUS_URL_ATTEMPT"}
ThisSession == "session_2"
EarlierSession == "session_1"

\* Logger.createLogEvent(level, action, details), with a fresh id.
createLogEvent(id, level, action, t, sessionId) ==
  [id |-> id, timestamp |-> t, level |-> level, action |-> action,
   sessionId |-> sessionId]

\* JSON.stringify of an event: the Date becomes its ISO string, and stays a
\* string when persistLog parses the slot again.
serializeLog(e) == [e EXCEPT !.timestamp = toISOString(e.timestamp)]

\* Mutant: the newest events are dropped.
persistLog_KeepsOldest(existingLogs, logEvent) ==
  LET pushed == Append(existingLogs, serializeLog(logEvent))
  IN IF Len(pushed) > MaxStoredLogs
     THEN SubSeq(pushed, 1, MaxStoredLogs)
     ELSE pushed

\* Logger.persistLog(logEvent) on a slot holding existingLogs: what it
\* hands to setItem.  splice(0, length - 1000) removes the oldest.
persistLog(existingLogs, logEvent) ==
  LET pushed == Append(existingLogs, serializeLog(logEvent))
  IN IF Len(pushed) > MaxStoredLogs
     THEN SubSeq(pushed, Len(pushed) - MaxStoredLogs + 1, Len(pushed))
     ELSE pushed

\* What the logs slot can hold when the page is opened: nothing, or the
\* events of an earlier session, one short of the cap.
EarlierLogs ==
  [i \in 1..(MaxStoredLogs - 1) |->
     serializeLog(createLogEvent(i, "INFO", "URL_VALIDATION", 0, EarlierSession))]

StoredLogs == {<<>>, EarlierLogs}

\* A registry just constructed on an empty slot, with the store working.
NoRegistry ==
  /\ failing = {}
  /\ storage = <<>>
  /\ urls = <<>>
  /\ shortCodeToId = <<>>
  /\ now = 0
  /\ nextSweep = CleanupIntervalMs
  /\ nextId = 1
  /\ created = 0
  /\ nextClickId = 1
  /\ deleted = 0
  /\ steps = 0
  /\ last = Call("constructor", NoResult, FALSE)
  /\ lookup = <<>>

\* The Logger of a page just opened on a registry with nothing stored.
InitLogger ==
  \E earlier \in StoredLogs :
    /\ NoRegistry
    /\ storedLogs = earlier
    /\ allLogs = earlier
    /\ logs = <<>>
    /\ input = <<>>
    /\ result = <<>>

\* The body shared by Logger.info, Logger.warn and Logger.error.
log(level, action) ==
  LET logEvent == createLogEvent(Len(allLogs) + 1, level, action, now, ThisSession)
  IN /\ Len(logs) < MaxLogCalls
     /\ logs' = Append(logs, logEvent)
     /\ storedLogs' = setItem(LogsKey, storedLogs, persistLog(storedLogs, logEvent))
     /\ allLogs' = setItem(LogsKey, allLogs, Append(allLogs, serializeLog(logEvent)))
     /\ last' = Call(level, afterLog(NoResult), FALSE)
     /\ UNCHANGED <<urls, shortCodeToId, storage, now, nextSweep, nextId, created,
                    nextClickId, deleted, steps, failing, lookup, input, result>>

info == \E action \in LogActions : log("INFO", action)
warn == \E action \in LogActions : log("WARN", action)
error == \E action \in LogActions : log("ERROR", action)

NextLogger ==
  \/ info
  \/ warn
  \/ error

SpecLogger == InitLogger /\ [][NextLogger]_vars

\* ------------------------------------------- validation of strings
RECURSIVE persistLogs(_, _)
\* Logger.persistLog run once for each of events, in order.
persistLogs(existingLogs, events) ==
  IF events = <<>> THEN existingLogs
  ELSE persistLogs(persistLog(existingLogs, Head(events)), Tail(events))

\* The logger calls <<level, action>> a validation function makes, in order.
logAll(calls) ==
  LET events == [i \in DOMAIN calls |->
                   createLogEvent(Len(allLogs) + i, calls[i][1], calls[i][2],
                                  now, ThisSession)]
  IN /\ logs' = logs \o events
     /\ storedLogs' = setItem(LogsKey, storedLogs, persistLogs(storedLogs, events))
     /\ allLogs' = setItem(LogsKey, allLogs,
                           allLogs \o [i \in DOMAIN events |-> serializeLog(events[i])])

\* /^[a-zA-Z0-9_-]+$/
WordChars == Letters \cup Digits \cup {"_", "-"}
matchesWord(s) == s # <<>> /\ \A i \in DOMAIN s : s[i] \in WordChars

reservedWords ==
  { <<"a", "d", "m", "i", "n">>, <<"a", "p", "i">>, <<"w", "w", "w">>,
    <<"a", "p", "p">>, <<"s", "t", "a", "t", "s">>,
    <<"a", "n", "a", "l", "y", "t", "i", "c", "s">> }

\* validateShortCode(shortCode): what it returns.
validateShortCode(shortCode) ==
  LET e1 == IF Len(shortCode) < MinShortCodeLength \/ Len(shortCode) > MaxShortCodeLength
            THEN <<"Short code must be between 3 and 20 characters">> ELSE <<>>
      e2 == IF ~matchesWord(shortCode)
            THEN <<"Short code can only contain letters, numbers, hyphens, and underscores">>
            ELSE <<>>
      e3 == IF toLowerCase(shortCode) \in reservedWords
            THEN <<"Short code cannot use reserved words">> ELSE <<>>
      errors == IF trim(shortCode) # <<>> THEN e1 \o e2 \o e3 ELSE <<>>
  IN [isValid |-> Len(errors) = 0, errors |-> errors]

\* The characters the short codes tried are made of.
ShortCodeChars == {"a", "Z", "9", "-", "_", " ", "!"}

\* n times the character ch.
Repeat(ch, n) == [i \in 1..n |-> ch]

\* The short codes tried: every string of up to MaxShortChars characters,
\* strings around the upper length limit, and the reserved words in
\* several spellings.
ShortCodeInputs ==
  Strings({<<ch>> : ch \in ShortCodeChars}, MaxShortChars)
    \cup {Repeat("a", n) : n \in (MaxShortCodeLength - 1)..(MaxShortCodeLength + 1)}
    \cup {Repeat(" ", MaxShortCodeLength + 1)}
    \cup reservedWords
    \cup { <<"A", "d", "m", "i", "n">>, <<"A", "P", "I">>, <<"a", "p", "i", "s">>,
           <<"S", "t", "a", "t", "s">>, <<"w", "w", "w", "w">> }

\* The form holds a custom short code that has not been validated yet.
InitShortCode ==
  /\ NoRegistry
  /\ logs = <<>>
  /\ storedLogs = <<>>
  /\ allLogs = <<>>
  /\ input \in ShortCodeInputs
  /\ result = <<>>

\* validateShortCode(input), with its logger.info call.
ValidateShortCode ==
  /\ result = <<>>
  /\ result' = << validateShortCode(input) >>
  /\ logAll(<< <<"INFO", "SHORTCODE_VALIDATION">> >>)
  /\ last' = Call("validateShortCode", afterLog(Returned(validateShortCode(input))), FALSE)
  /\ UNCHANGED <<urls, shortCodeToId, storage, now, nextSweep, nextId, created,
                 nextClickId, deleted, steps, failing, lookup, input>>

NextShortCode == ValidateShortCode

SpecShortCode == InitShortCode /\ [][NextShortCode]_vars

\* ------------------------------------------------ validateUrl
Http == <<"h", "t", "t", "p">>
Https == <<"h", "t", "t", "p", "s">>
Ftp == <<"f", "t", "p">>
File == <<"f", "i", "l", "e">>
Javascript == <<"j", "a", "v", "a", "s", "c", "r", "i", "p", "t">>
Data == <<"d", "a", "t", "a">>
Vbscript == <<"v", "b", "s", "c", "r", "i", "p", "t">>

\* The schemes whose URLs must name a host, apart from file.
HostSchemes == {Http, Https, Ftp, <<"w", "s">>, <<"w", "s", "s">>}

\* The least element of a non-empty set of numbers.
Least(S) == CHOOSE i \in S : \A j \in S : i <= j

\* Where the first character of s that is in chars stands; 0 if none does.
firstAt(s, chars) ==
  LET at == {i \in DOMAIN s : s[i] \in chars}
  IN IF at = {} THEN 0 ELSE Least(at)

\* new URL(url) with no base, as the browser's URL parser does it: white
\* space around the string is dropped; the scheme is a letter followed by
\* letters, digits, "+", "-", "." up to the first ":"; after http, https,
\* ftp, ws and wss any slashes are skipped and a host must follow; after
\* other schemes a host is read only behind "//"; a host ends at "/", "?" or
\* "#", must not hold a blank, and may be followed by ":" and a port of
\* digits; anything else is a path, which never fails.

\* The scheme of s in lower case; <<>> if s does not start with a scheme.
schemeOf(s) ==
  LET p == firstAt(s, {":"})
  IN IF /\ p > 1
        /\ s[1] \in Letters
        /\ \A i \in 1..(p - 1) : s[i] \in Letters \cup Digits \cup {"+", "-", "."}
     THEN toLowerCase(SubSeq(s, 1, p - 1))
     ELSE <<>>

\* What follows the first ":" of s.
afterScheme(s) == SubSeq(s, firstAt(s, {":"}) + 1, Len(s))

\* The number of "/" rest starts with.
leadingSlashes(rest) ==
  LET solid == {i \in DOMAIN rest : rest[i] # "/"}
  IN IF solid = {} THEN Len(rest) ELSE Least(solid) - 1

\* Whether a host is read after this scheme.
hasAuthority(scheme, rest) == scheme \in HostSchemes \/ leadingSlashes(rest) >= 2

\* The host and port part of rest.
authorityOf(scheme, rest) ==
  LET skipped == IF scheme \in HostSchemes THEN leadingSlashes(rest) ELSE 2
      tail == SubSeq(rest, skipped + 1, Len(rest))
      stop == firstAt(tail, {"/", "?", "#"})
  IN IF stop = 0 THEN tail ELSE SubSeq(tail, 1, stop - 1)

\* Whether the host and port part is accepted.
hostOk(scheme, authority) ==
  LET mark == IF scheme = File THEN 0 ELSE firstAt(authority, {":"})
      host == IF mark = 0 THEN authority ELSE SubSeq(authority, 1, mark - 1)
      port == IF mark = 0 THEN <<>> ELSE SubSeq(authority, mark + 1, Len(authority))
  IN /\ \A i \in DOMAIN host : host[i] \notin {" ", ":"}
     /\ (scheme \in HostSchemes \/ mark # 0) => host # <<>>
     /\ \A i \in DOMAIN port : port[i] \in Digits

\* new URL(url): [ok |-> FALSE] when the constructor throws a TypeError.
newURL(url) ==
  LET scheme == schemeOf(trim(url))
      rest == afterScheme(trim(url))
  IN IF /\ scheme # <<>>
        /\ hasAuthority(scheme, rest) => hostOk(scheme, authorityOf(scheme, rest))
     THEN [ok |-> TRUE, protocol |-> scheme \o <<":">>]
     ELSE [ok |-> FALSE, protocol |-> <<>>]

\* /javascript:/i, /data:/i, /vbscript:/i, /file:/i
maliciousPatterns ==
  {Javascript \o <<":">>, Data \o <<":">>, Vbscript \o <<":">>, File \o <<":">>}

\* maliciousPatterns.some(pattern => pattern.test(url))
matchesMalicious(url) == \E pat \in maliciousPatterns : Contains(toLowerCase(url), pat)

\* validateUrl(url): what it returns, and in logged the logger calls it makes.
validateUrl(url) ==
  LET urlObj == newURL(url)
      e1 == IF urlObj.protocol \notin {Http \o <<":">>, Https \o <<":">>}
            THEN <<"URL must use HTTP or HTTPS protocol">> ELSE <<>>
      e2 == IF matchesMalicious(url)
            THEN <<"URL contains potentially malicious content">> ELSE <<>>
      errors == IF trim(url) = <<>> THEN <<"URL is required">>
                ELSE IF urlObj.ok THEN e1 \o e2
                ELSE <<"Invalid URL format">>
      warned == IF trim(url) # <<>> /\ urlObj.ok /\ matchesMalicious(url)
                THEN << <<"WARN", "MALICIOUS_URL_ATTEMPT">> >> ELSE <<>>
  IN [isValid |-> Len(errors) = 0, errors |-> errors,
      logged |-> warned \o << <<"INFO", "URL_VALIDATION">> >>]

\* The pieces the URL strings tried are put together from.
UrlTokens ==
  {Http, Https, Ftp, File, Javascript, <<"D", "A", "T", "A">>, Vbscript,
   <<":">>, <<"/", "/">>, <<"x", ".", "c", "o", "m">>, <<" ">>}

UrlInputs == Strings(UrlTokens, MaxUrlTokens)

\* The form holds a URL that has not been validated yet.
InitUrl ==
  /\ NoRegistry
  /\ logs = <<>>
  /\ storedLogs = <<>>
  /\ allLogs = <<>>
  /\ input \in UrlInputs
  /\ result = <<>>

\* validateUrl(input), with its logger calls.
ValidateUrl ==
  LET r == validateUrl(input)
      returned == [isValid |-> r.isValid, errors |-> r.errors]
  IN /\ result = <<>>
     /\ result' = << returned >>
     /\ logAll(r.logged)
     /\ last' = Call("validateUrl", afterLog(Returned(returned)), FALSE)
     /\ UNCHANGED <<urls, shortCodeToId, storage, now, nextSweep, nextId, created,
                    nextClickId, deleted, steps, failing, lookup, input>>

NextUrl == ValidateUrl

SpecUrl == InitUrl /\ [][NextUrl]_vars

\* ------------------------------- the registry, the store failing
\* The origin's storage quota is used up (by this page's logs or by another
\* tab): from now on setItem throws for the keys in ks.
QuotaFills ==
  \E ks \in (SUBSET StorageKeys) \ {{}} :
    /\ Step
    /\ failing = {}
    /\ failing' = ks
    /\ UNCHANGED <<urls, shortCodeToId, storage, now, nextSweep, nextId,
                   created, nextClickId, deleted, last, lookup>>
    /\ UNCHANGED <<logs, storedLogs, allLogs, input, result>>

NextStorage ==
  \/ Next
  \/ QuotaFills

SpecStorage == Init /\ [][NextStorage]_vars

\* --------------------------- the registry under a timer that fires
\* The setInterval callback of startExpiryCleanup: it is due every
\* CleanupIntervalMs for as long as the page lives, whatever else has run.
SweepTimer ==
  /\ now >= nextSweep
  /\ nextSweep' = now + CleanupIntervalMs
  /\ cleanupExpiredUrls
  /\ UNCHANGED <<now, nextClickId, deleted, steps>>
  /\ Forget
  /\ UNCHANGED others

NextLive ==
  \/ Tick
  \/ Shorten
  \/ RecordClick
  \/ Delete
  \/ SweepTimer

\* The browser runs a timer callback that is due.  Every run of the
\* callback moves nextSweep, so nextSweep serves as the subscript.
SpecLive == Init /\ [][NextLive]_vars /\ WF_nextSweep(SweepTimer)

\* ---------------------------- the registry, its records handed out
\* What a caller writes into a record it was handed.
Tampered == "https://changed.example"

\* getAllUrls() as the caller receives it: a new array (Array.from, sorted)
\* whose elements are the objects held by the urls Map, named here by id.
getAllUrlsRefs(us) == [i \in DOMAIN getAllUrls(us) |-> getAllUrls(us)[i].id]

\* A caller drops the first element of the array getAllUrls() returned
\* (list.shift()): the array is the caller's own, the Map is not touched.
CallerWritesList ==
  /\ Step
  /\ urls # <<>>
  /\ last.op # "getAllUrls"
  /\ last' = Call("getAllUrls", NoResult, FALSE)
  /\ UNCHANGED <<urls, shortCodeToId, storage, now, nextSweep, nextId, created,
                 nextClickId, deleted, lookup>>
  /\ UNCHANGED others

\* A caller assigns to a field of a record in the array getAllUrls()
\* returned (list[k].originalUrl = ...): the record is the Map's own object.
CallerWritesRecord ==
  \E k \in DOMAIN urls :
    LET ref == getAllUrlsRefs(urls)[k]
    IN /\ Step
       /\ \A i \in DOMAIN urls : urls[i].originalUrl # Tampered
       /\ urls' = [i \in DOMAIN urls |->
                     IF urls[i].id = ref
                     THEN [urls[i] EXCEPT !.originalUrl = Tampered] ELSE urls[i]]
       /\ last' = Call("getAllUrls", NoResult, FALSE)
       /\ UNCHANGED <<shortCodeToId, storage, now, nextSweep, nextId, created,
                      nextClickId, deleted, lookup>>
       /\ UNCHANGED others

NextCaller ==
  \/ Next
  \/ CallerWritesList
  \/ CallerWritesRecord

SpecCaller == Init /\ [][NextCaller]_vars

\* ------------------------------------------- the registry, read
\* The codes a page asks getUrlByShortCode for.
LookupCodes == {"abc", "my-link", "x_9"}

\* RedirectHandler and the pages call getUrlByShortCode(shortCode); the call
\* reads the clock and changes nothing in the registry.
Lookup ==
  \E c \in LookupCodes :
    LET ret == getUrlByShortCode(urls, shortCodeToId, c, now)
    IN /\ Step
       /\ lookup' = << [shortCode |-> c, ret |-> ret] >>
       /\ last' = Call("getUrlByShortCode", Found(ret), FALSE)
       /\ UNCHANGED <<urls, shortCodeToId, storage, now, nextSweep, nextId,
                      created, nextClickId, deleted>>
       /\ UNCHANGED others

NextLookup ==
  \/ Next
  \/ Lookup

SpecLookup == Init /\ [][NextLookup]_vars

\* ---------------------------------------------------------- claims
ThrownDuplicate == Thrown("Short code already exists")
ThrownLimit == Thrown("Maximum of 5 concurrent URLs allowed")

\* The records of us whose isActive flag is set and whose deadline is in the
\* future at time t (the "Active" badge of the pages).
LiveIndexes(us, t) == {i \in DOMAIN us : us[i].isActive /\ us[i].expiresAt > t}

\* The records of us whose isActive flag is set.
FlaggedIndexes(us) == {i \in DOMAIN us : us[i].isActive}

\* The records of us whose flag is set and whose deadline has not passed.
NotPassedIndexes(us, t) == {i \in DOMAIN us : us[i].isActive /\ ~(us[i].expiresAt < t)}

\* The short code a submission resolves to.
Resolved(customShortCode, generated) ==
  IF customShortCode # NoCode THEN customShortCode ELSE generated

\* A step that is the call shortenUrl(r[1], r[2], r[3]) with g generated.
ShortenCall(r, g) ==
  /\ shortenUrl(r[1], r[2], r[3], g)
  /\ UNCHANGED <<now, nextSweep, nextClickId, deleted>>

GenChoices(r) == IF r[2] = NoCode THEN GenCodes ELSE {NoCode}

\* C1: in every reachable state getAllUrls holds at most 5 records with
\* isActive true and expiresAt in the future.
C1_AtMostFiveLive ==
  Cardinality(LiveIndexes(getAllUrls(urls), now)) <= 5

\* C1 witness: the cap is reached by a successful shortenUrl.
C1_Witness ==
  /\ last.op = "shortenUrl" /\ last.ret.kind = "value"
  /\ Cardinality(LiveIndexes(getAllUrls(urls), now)) = 5

\* C2 as stated: a shortenUrl with an unused code throws the limit error
\* exactly when at least 5 records have isActive true and a deadline that has
\* not passed.
C2_LimitCountsUnexpired ==
  [][\A r \in Requests : \A g \in GenChoices(r) :
       (ShortenCall(r, g) /\ ~(\E i \in DOMAIN urls : urls[i].shortCode = Resolved(r[2], g)))
       => ((last'.ret = ThrownLimit)
             <=> Cardinality(NotPassedIndexes(urls, now)) >= 5)]_vars

\* C2 amended: a shortenUrl with an unused code throws the limit error exactly
\* when at least 5 records have isActive true, whether or not their deadline
\* has passed; with fewer it returns the new record.
C2_LimitCountsFlagged ==
  [][\A r \in Requests : \A g \in GenChoices(r) :
       (ShortenCall(r, g) /\ ~(\E i \in DOMAIN urls : urls[i].shortCode = Resolved(r[2], g)))
       => /\ (last'.ret = ThrownLimit) <=> Cardinality(FlaggedIndexes(urls)) >= 5
          /\ Cardinality(FlaggedIndexes(urls)) < 5 => last'.ret.kind = "value"]_vars

\* C2 witness: the limit error is thrown while a flagged record is past its
\* deadline and not yet swept.
C2_Witness ==
  /\ last.op = "shortenUrl" /\ last.ret = ThrownLimit
  /\ Cardinality(NotPassedIndexes(urls, now)) < 5

\* C3: no two records of the registry have the same shortCode.
C3_ShortCodeUnique ==
  \A i, j \in DOMAIN urls : urls[i].shortCode = urls[j].shortCode => i = j

\* C3 witness: a shortenUrl was refused as a duplicate while the registry
\* holds a deactivated record.
C3_Witness ==
  /\ last.op = "shortenUrl" /\ last.ret = ThrownDuplicate
  /\ \E i \in DOMAIN urls : ~urls[i].isActive


\* The records of us that carry short code c.
WithCode(us, c) == SelectSeq(us, LAMBDA u : u.shortCode = c)

\* C4: when shortenUrl returns a record, getUrlByShortCode of its shortCode
\* at once returns a record with the submitted originalUrl and that
\* shortCode, which is the custom code when one was given.
C4_ShortenThenLookup ==
  [][\A r \in Requests : \A g \in GenChoices(r) :
       (ShortenCall(r, g) /\ last'.ret.kind = "value")
       => LET code == last'.ret.val.shortCode
              got == getUrlByShortCode(urls', shortCodeToId', code, now')
          IN /\ Len(got) = 1
             /\ got[1].originalUrl = r[1]
             /\ got[1].shortCode = code
             /\ r[2] # NoCode => code = r[2]
             /\ r[2] = NoCode => code \in GenCodes]_vars

\* C4 witness: shortenUrl has returned a record with a generated code that
\* getUrlByShortCode finds.
C4_Witness ==
  /\ last.op = "shortenUrl" /\ last.ret.kind = "value"
  /\ last.ret.val.shortCode = "Qw9ZrT"
  /\ getUrlByShortCode(urls, shortCodeToId, "Qw9ZrT", now) = <<last.ret.val>>

\* C5: shortenUrl throws the duplicate error exactly when the resolved code,
\* compared case-sensitively, is the shortCode of an existing record, and a
\* shortenUrl that throws leaves both maps and the stored snapshot as they
\* were and does not call saveToStorage.
C5_DuplicateRejected ==
  [][\A r \in Requests : \A g \in GenChoices(r) :
       ShortenCall(r, g)
       => /\ (last'.ret = ThrownDuplicate) <=> WithCode(urls, Resolved(r[2], g)) # <<>>
          /\ last'.ret.kind = "error"
               => /\ urls' = urls
                  /\ shortCodeToId' = shortCodeToId
                  /\ storage' = storage
                  /\ ~last'.saved]_vars

\* C5 witness: a shortenUrl was refused as a duplicate while a record whose
\* code differs from another's only in case exists.
C5_Witness ==
  /\ last.op = "shortenUrl" /\ last.ret = ThrownDuplicate
  /\ WithCode(urls, "abc") # <<>> /\ WithCode(urls, "ABC") # <<>>
  /\ created > 0

\* C6: getUrlByShortCode returns null exactly when no record has the code,
\* or its record has isActive false, or its record's expiresAt is in the
\* past; otherwise it returns the record with that code.
C6_LookupAbsentExactly ==
  \A c \in Codes :
    LET got == getUrlByShortCode(urls, shortCodeToId, c, now)
        recs == WithCode(urls, c)
    IN IF recs = <<>> \/ ~recs[1].isActive \/ recs[1].expiresAt < now
       THEN got = <<>>
       ELSE got = <<recs[1]>>

\* C6 witness: a record past its deadline still has isActive true (no sweep
\* has run since) and getUrlByShortCode returns null for it, while another
\* code is found.
C6_Witness ==
  /\ \E i \in DOMAIN urls :
       /\ urls[i].isActive /\ urls[i].expiresAt < now
       /\ getUrlByShortCode(urls, shortCodeToId, urls[i].shortCode, now) = <<>>
  /\ \E c \in Codes : getUrlByShortCode(urls, shortCodeToId, c, now) # <<>>

\* A step that is the call recordClick(c, ua, ref).
ClickCall(c, ua, ref) ==
  /\ recordClick(c, ua, ref)
  /\ UNCHANGED <<shortCodeToId, now, nextSweep, nextId, created, deleted>>

\* Whether code c has a record that is flagged active and not past its deadline.
Resolvable(c) ==
  \E i \in DOMAIN urls :
    urls[i].shortCode = c /\ urls[i].isActive /\ ~(urls[i].expiresAt < now)

\* C7: recordClick on a known, active, unexpired code returns true, adds 1 to
\* that record's clickCount and appends one ClickEvent to the end of its
\* clicks, so that clickCount is the length of clicks; no other record changes.
C7_ClickAppendsOne ==
  [][\A c \in Codes, ua \in UserAgents, ref \in Referrers :
       (ClickCall(c, ua, ref) /\ Resolvable(c))
       => /\ last'.ret = Answered(TRUE)
          /\ Len(urls') = Len(urls)
          /\ \A i \in DOMAIN urls :
               IF urls[i].shortCode = c
               THEN /\ urls'[i].clickCount = urls[i].clickCount + 1
                    /\ Len(urls'[i].clicks) = Len(urls[i].clicks) + 1
                    /\ SubSeq(urls'[i].clicks, 1, Len(urls[i].clicks)) = urls[i].clicks
                    /\ urls'[i].clicks[Len(urls'[i].clicks)].userAgent = ua
                    /\ urls'[i].clicks[Len(urls'[i].clicks)].referrer = ref
                    /\ urls'[i].clicks[Len(urls'[i].clicks)].timestamp = now
                    /\ urls'[i].clicks[Len(urls'[i].clicks)].ipAddress = MaskedIp
                    /\ urls'[i].clickCount = Len(urls'[i].clicks)
                    /\ [urls'[i] EXCEPT !.clicks = urls[i].clicks,
                                        !.clickCount = urls[i].clickCount] = urls[i]
               ELSE urls'[i] = urls[i]]_vars

\* C7 witness: a second click was recorded on a record, at a later time
\* than its first.
C7_Witness ==
  /\ last.op = "recordClick" /\ last.ret = Answered(TRUE)
  /\ \E i \in DOMAIN urls :
       /\ urls[i].clickCount = 2
       /\ urls[i].clicks[1].timestamp < urls[i].clicks[2].timestamp

\* C8: recordClick on a code for which getUrlByShortCode returns null
\* (unknown, inactive or expired) returns false and changes nothing: no
\* record, neither map, and no saveToStorage.
C8_FailedClickNoEffect ==
  [][\A c \in Codes, ua \in UserAgents, ref \in Referrers :
       (ClickCall(c, ua, ref) /\ ~Resolvable(c))
       => /\ last'.ret = Answered(FALSE)
          /\ urls' = urls
          /\ shortCodeToId' = shortCodeToId
          /\ storage' = storage
          /\ nextClickId' = nextClickId
          /\ ~last'.saved]_vars

\* C8 witness: recordClick returned false while every record of the
\* registry is past its deadline and still flagged active, after an earlier
\* click was recorded.
C8_Witness ==
  /\ last.op = "recordClick" /\ last.ret = Answered(FALSE)
  /\ urls # <<>>
  /\ \A i \in DOMAIN urls : urls[i].isActive /\ urls[i].expiresAt < now
  /\ \E i \in DOMAIN urls : urls[i].clickCount = 1

\* A step that is one run of the timer callback.
SweepCall ==
  /\ cleanupExpiredUrls
  /\ nextSweep' = now + CleanupIntervalMs
  /\ UNCHANGED <<now, nextClickId, deleted>>

\* C9: a sweep sets isActive to false on exactly the records with isActive
\* true and expiresAt in the past and changes nothing else; no record leaves
\* either map; each swept record is then null for getUrlByShortCode and still
\* in getAllUrls, with isActive false.
C9_SweepOnlyDeactivates ==
  [][(last'.op = "cleanupExpiredUrls" /\ SweepCall)
       => /\ Len(urls') = Len(urls)
          /\ shortCodeToId' = shortCodeToId
          /\ \A i \in DOMAIN urls :
               IF urls[i].isActive /\ urls[i].expiresAt < now
               THEN /\ urls'[i] = [urls[i] EXCEPT !.isActive = FALSE]
                    /\ getUrlByShortCode(urls', shortCodeToId', urls[i].shortCode, now') = <<>>
                    /\ \E k \in DOMAIN getAllUrls(urls') :
                         /\ getAllUrls(urls')[k].id = urls[i].id
                         /\ ~getAllUrls(urls')[k].isActive
               ELSE urls'[i] = urls[i]]_vars

\* C9 witness: a sweep has deactivated one record and left another, whose
\* deadline has not passed, active.
C9_Witness ==
  /\ last.op = "cleanupExpiredUrls" /\ last.saved
  /\ \E i, j \in DOMAIN urls : ~urls[i].isActive /\ urls[j].isActive

\* A step that is the call deleteUrl(id).
DeleteCall(id) ==
  /\ deleteUrl(id)
  /\ deleted' = deleted + 1
  /\ UNCHANGED <<now, nextSweep, nextId, created, nextClickId>>

\* C10: deleteUrl of an existing id returns true and removes the record from
\* urls and its code from shortCodeToId, so that a shortenUrl with that code
\* is no longer a duplicate and, when 5 records were flagged active and the
\* deleted one was among them, the limit is no longer reached; deleteUrl of
\* an unknown id returns false and changes nothing.
C10_DeleteFreesCode ==
  [][\A id \in 1..nextId :
       DeleteCall(id)
       => IF \E i \in DOMAIN urls : urls[i].id = id
          THEN LET old == CHOOSE u \in Range(urls) : u.id = id
               IN /\ last'.ret = Answered(TRUE)
                  /\ urls' = SelectSeq(urls, LAMBDA u : u # old)
                  /\ old.shortCode \notin DOMAIN shortCodeToId'
                  /\ \A c \in DOMAIN shortCodeToId \ {old.shortCode} :
                       c \in DOMAIN shortCodeToId' /\ shortCodeToId'[c] = shortCodeToId[c]
                  /\ ~codeTaken(shortCodeToId', old.shortCode)
                  /\ (Cardinality(FlaggedIndexes(urls)) = 5 /\ old.isActive)
                       => ~limitReached(urls')
          ELSE /\ last'.ret = Answered(FALSE)
               /\ urls' = urls
               /\ shortCodeToId' = shortCodeToId
               /\ storage' = storage]_vars

\* C10 witness: after 5 active records and a deleteUrl of one of them, a
\* shortenUrl has returned a new record.
C10_Witness ==
  /\ last.op = "shortenUrl" /\ last.ret.kind = "value"
  /\ deleted = 1 /\ created = 2 /\ now = 0
  /\ Len(urls) = 5 /\ Cardinality(FlaggedIndexes(urls)) = 5

\* The ids of the records of us.
Ids(us) == {us[i].id : i \in DOMAIN us}

\* The record of us with the given id.
ById(us, id) == CHOOSE u \in Range(us) : u.id = id

\* C11: a record has isActive true when it is created; afterwards its flag
\* never goes from false to true, and it goes from true to false only in a
\* run of cleanupExpiredUrls.
C11_ActiveFlagMonotonic ==
  [][/\ \A id \in Ids(urls') \ Ids(urls) : ById(urls', id).isActive
     /\ \A id \in Ids(urls') \cap Ids(urls) :
          /\ ById(urls', id).isActive => ById(urls, id).isActive
          /\ ById(urls', id).isActive # ById(urls, id).isActive
               => last'.op = "cleanupExpiredUrls"]_vars

\* C11 witness: a record deactivated by a sweep is still inactive after a
\* later shortenUrl has added a record.
C11_Witness ==
  /\ last.op = "shortenUrl" /\ last.ret.kind = "value"
  /\ \E i \in DOMAIN urls : ~urls[i].isActive
  /\ urls[Len(urls)].isActive

\* C18: shortCodeToId maps code c to id i exactly when urls holds a record
\* with id i and shortCode c.
C18_IndexesConsistent ==
  /\ \A c \in DOMAIN shortCodeToId :
       \E i \in DOMAIN urls : urls[i].id = shortCodeToId[c] /\ urls[i].shortCode = c
  /\ \A i \in DOMAIN urls :
       /\ urls[i].shortCode \in DOMAIN shortCodeToId
       /\ shortCodeToId[urls[i].shortCode] = urls[i].id
  /\ \A i, j \in DOMAIN urls : urls[i].id = urls[j].id => i = j

\* C18 witness: a record was deleted after another was created, and records
\* remain.
C18_Witness ==
  /\ last.op = "deleteUrl" /\ last.ret = Answered(TRUE)
  /\ created >= 1 /\ Len(urls) >= 4

\* C19: the stored snapshot, reloaded by loadFromStorage, gives the two maps
\* as they are in memory, and after a call that saved, the slot holds every
\* record of urls in order with its fields.
C19_SnapshotMatchesMemory ==
  /\ loadFromStorage(storage).urls = urls
  /\ loadFromStorage(storage).shortCodeToId = shortCodeToId
  /\ last.saved =>
       /\ Len(storage) = 1 /\ Len(storage[1]) = Len(urls)
       /\ \A i \in DOMAIN urls : parseUrl(storage[1][i]) = urls[i]

\* C19 witness: a sweep that deactivated a record with a recorded click has
\* saved.
C19_Witness ==
  /\ last.op = "cleanupExpiredUrls" /\ last.saved
  /\ \E i \in DOMAIN urls : ~urls[i].isActive /\ urls[i].clickCount = 1

\* A step that is the call getUrlByShortCode(c) made while the result of an
\* earlier getUrlByShortCode(c) is remembered: no shortenUrl, recordClick,
\* deleteUrl or sweep has changed a map between the two calls.
SecondLookup(c) ==
  /\ lookup # <<>> /\ lookup[1].shortCode = c
  /\ lookup' # <<>> /\ lookup'[1].shortCode = c
  /\ last'.op = "getUrlByShortCode"
  /\ UNCHANGED <<urls, shortCodeToId, now>>

\* C12 as stated: the second of two getUrlByShortCode calls with the same
\* code and no change of the maps between them returns what the first did.
C12_LookupTwiceEqual ==
  [][\A c \in LookupCodes : SecondLookup(c) => lookup'[1].ret = lookup[1].ret]_vars

\* C12: the second of two getUrlByShortCode calls with the same code and no
\* change of the maps between them returns what the first returned, unless
\* the first returned a record whose expiresAt is before the time of the
\* second call, in which case the second returns null.
C12_LookupTwiceEqualUntilDeadline ==
  [][\A c \in LookupCodes :
       SecondLookup(c) =>
         lookup'[1].ret = IF lookup[1].ret # <<>> /\ lookup[1].ret[1].expiresAt < now
                          THEN <<>> ELSE lookup[1].ret]_vars

\* C12 witness: a getUrlByShortCode call has returned a record, the clock has
\* moved on to the record's deadline, and the call is remembered.
C12_Witness ==
  /\ lookup # <<>> /\ lookup[1].ret # <<>>
  /\ lookup[1].ret[1].expiresAt = now
  /\ last.op = "tick"

RegistryOps == {"shortenUrl", "recordClick", "deleteUrl", "cleanupExpiredUrls"}

\* C13: a registry operation run while the store fails does not raise the
\* storage failure to its caller: it ends with its normal result.
C13_StorageFailureSwallowed ==
  (failing # {} /\ last.op \in RegistryOps) => last.ret # QuotaExceeded

\* The last n elements of s.
LastN(s, n) == SubSeq(s, Len(s) - n + 1, Len(s))

Min(a, b) == IF a < b THEN a ELSE b

\* C14: the logs slot holds at most 1000 events, and they are the most
\* recent min(n, 1000) of the n events written to it, in the order written.
C14_StoredLogsBounded ==
  /\ Len(storedLogs) <= MaxStoredLogs
  /\ storedLogs = LastN(allLogs, Min(Len(allLogs), MaxStoredLogs))

\* C14 witness: more than 1000 events were written and the oldest of them,
\* from an earlier session, are gone.
C14_Witness ==
  /\ Len(allLogs) > MaxStoredLogs + 1
  /\ Len(storedLogs) = MaxStoredLogs
  /\ storedLogs[1].id = 3
  /\ storedLogs[MaxStoredLogs].sessionId = ThisSession

\* r holds every record of us once, newest createdAt first.
NewestFirst(r, us) ==
  /\ Len(r) = Len(us)
  /\ Range(r) = Range(us)
  /\ \A i, j \in DOMAIN r : i < j => r[i].createdAt >= r[j].createdAt

\* C15: getAllUrls returns every record, newest createdAt first, and what a
\* caller does to the returned array or to the records in it changes nothing
\* that getAllUrls or getUrlByShortCode return afterwards.
C15_ListAllIsSnapshot ==
  [][/\ NewestFirst(getAllUrls(urls'), urls')
     /\ last'.op = "getAllUrls" =>
          /\ getAllUrls(urls') = getAllUrls(urls)
          /\ \A c \in Codes :
               getUrlByShortCode(urls', shortCodeToId', c, now')
                 = getUrlByShortCode(urls, shortCodeToId, c, now)]_vars

\* C16: validateShortCode finds the empty code valid, and a non-empty code
\* valid exactly when its length is between 3 and 20, all its characters are
\* letters, digits, hyphens or underscores, and its lowercase form is not a
\* reserved word.
C16_ShortCodeRules ==
  result # <<>> =>
    result[1].isValid =
      IF input = <<>> THEN TRUE
      ELSE /\ Len(input) >= MinShortCodeLength
           /\ Len(input) <= MaxShortCodeLength
           /\ \A i \in DOMAIN input : input[i] \in WordChars
           /\ toLowerCase(input) \notin reservedWords

\* The messages of the rules a non-empty url violates.
ViolatedRules(url) ==
  (IF ~newURL(url).ok THEN {"Invalid URL format"} ELSE {})
    \cup (IF newURL(url).ok /\ newURL(url).protocol \notin {Http \o <<":">>, Https \o <<":">>}
          THEN {"URL must use HTTP or HTTPS protocol"} ELSE {})
    \cup (IF matchesMalicious(url)
          THEN {"URL contains potentially malicious content"} ELSE {})

\* C17: for a non-empty input, validateUrl lists every rule the input
\* violates, and when the raw string matches the blocklist it lists the
\* malicious-content violation and logs a MALICIOUS_URL_ATTEMPT warning,
\* whether or not the string parses.
C17_MaliciousAlwaysReported ==
  (result # <<>> /\ trim(input) # <<>>) =>
    /\ ViolatedRules(input) \subseteq Range(result[1].errors)
    /\ matchesMalicious(input) =>
         /\ "URL contains potentially malicious content" \in Range(result[1].errors)
         /\ \E i \in DOMAIN logs :
              logs[i].level = "WARN" /\ logs[i].action = "MALICIOUS_URL_ATTEMPT"

\* The ids a record can have within the bounds.
RecordIds == 1..(Len(PreviousVisit[1]) + MaxCreates)

\* The record with this id is flagged active and its deadline has passed.
Overdue(id) ==
  \E i \in DOMAIN urls : urls[i].id = id /\ urls[i].isActive /\ urls[i].expiresAt < now

\* The record with this id is deactivated or gone.
Retired(id) ==
  \A i \in DOMAIN urls : urls[i].id = id => ~urls[i].isActive

\* C20: under a timer that keeps firing, every record whose expiresAt has
\* passed is eventually deactivated or deleted, and a registry that is at
\* the limit with every flagged record past its deadline eventually is
\* below the limit, so that shortenUrl admits a new record.
C20_OverdueEventuallyRetired ==
  /\ \A id \in RecordIds : Overdue(id) ~> Retired(id)
  /\ (limitReached(urls) /\ \A i \in FlaggedIndexes(urls) : urls[i].expiresAt < now)
       ~> ~limitReached(urls)

\* C20 witness: a registry that was at the limit has had records deactivated
\* by the timer and has then admitted a sixth record.
C20_Witness ==
  /\ last.op = "shortenUrl" /\ last.ret.kind = "value"
  /\ Len(urls) = MaxConcurrentUrls + 1
  /\ Cardinality(FlaggedIndexes(urls)) < MaxConcurrentUrls

====
